---- MODULE Spec2Model ----
(***************************************************************************)
(* Model of leafpipe's audio-to-spectrum core: the chunk queue of          *)
(* BufferManager (src/src/vis.rs) with fill_buffer, take_next and          *)
(* fft_interval, the SlidingWindow normaliser                              *)
(* (src/src/slidingwindow.rs), and the two threads that share the queue:   *)
(* the stream's process callback and update_lights (src/src/main.rs).      *)
(*                                                                         *)
(* Representation.                                                         *)
(*  - A Duration is a whole number of ticks, one tick = 1 microsecond      *)
(*    (TicksPerSec ticks per second, TicksPerMilli per millisecond).       *)
(*  - An f32 is a pair <<n, d>> of naturals, d >= 0, kept in lowest terms: *)
(*    d > 0 is the rational n/d, <<1, 0>> is +infinity and <<0, 0>> is NaN.*)
(*    Arithmetic is exact on rationals and follows IEEE-754 on the special *)
(*    values (0/0 = NaN, x/0 = inf, NaN propagates); rounding of the       *)
(*    mantissa is not modelled.                                            *)
(*  - A sample is the natural number it got on acceptance (its arrival     *)
(*    index), so that order and duplication of samples can be observed.    *)
(*  - The magnitudes fft_interval returns are not computed; a present      *)
(*    result is modelled by its length.                                    *)
(***************************************************************************)
EXTENDS Integers, Sequences, FiniteSets, TLC

\* ---------------------------------------------------------------- constants
BUFFER_TARGET == 3
CEILING_FREQ == 15000
FLOOR_FREQ == 100

TicksPerSec == 1000000
TicksPerMilli == 1000

\* ------------------------------------------------------------------ bounds
MaxFills == 4
MaxCalls == 2
MaxSubmits == 4
MaxLimit == 2
NumPanels == 2

\* ------------------------------------------------------------------ inputs
\* sample rates (Hz) a chunk may be tagged with; 0 is what an unconfigured
\* stream reports
Rates == {0, 50, 2000}
\* lengths of the pushed sample slices
ChunkLens == {0, 3}
\* requested intervals, in ticks
Intervals == {0, 1500, 2500, 21000, 40000}
\* requested output sizes
OutSizes == {0, 2}
\* submitted intensities, in tenths (1 = 0.1)
WinValues == {0, 1, 3, 2000}

\* ------------------------------------------------------------- f32 algebra
RECURSIVE Gcd(_, _)
Gcd(a, b) == IF b = 0 THEN a ELSE Gcd(b, a % b)

\* canonical form of the pair n/d
Norm(n, d) ==
    IF d = 0 THEN (IF n = 0 THEN <<0, 0>> ELSE <<1, 0>>)
    ELSE IF n = 0 THEN <<0, 1>>
    ELSE LET g == Gcd(n, d) IN <<n \div g, d \div g>>

NaN == <<0, 0>>
Zero == <<0, 1>>
IsNaN(x) == x = NaN
FromInt(n) == <<n, 1>>
\* the gcd as a divisor: 1 when both numbers are 0
Gcd1(a, b) == IF a = 0 /\ b = 0 THEN 1 ELSE Gcd(a, b)
\* (n1/d1) * (n2/d2), common factors g1 of n1, d2 and g2 of n2, d1 taken
\* out before the products are formed
Product(n1, d1, n2, d2, g1, g2) ==
    Norm((n1 \div g1) * (n2 \div g2), (d1 \div g2) * (d2 \div g1))
\* (n1/d1) + (n2/d2) and (n1/d1) - (n2/d2) over the least common
\* denominator, g the gcd of d1 and d2
Sum(n1, d1, n2, d2, g) ==
    Norm(n1 * (d2 \div g) + n2 * (d1 \div g), (d1 \div g) * d2)
Difference(n1, d1, n2, d2, g) ==
    Norm(n1 * (d2 \div g) - n2 * (d1 \div g), (d1 \div g) * d2)

FAdd(x, y) ==
    IF IsNaN(x) \/ IsNaN(y) THEN NaN
    ELSE IF x[2] = 0 \/ y[2] = 0 THEN <<1, 0>>
    ELSE Sum(x[1], x[2], y[1], y[2], Gcd(x[2], y[2]))
\* x - y, used only with x >= y
FSub(x, y) ==
    IF IsNaN(x) \/ IsNaN(y) THEN NaN
    ELSE IF x[2] = 0 THEN (IF y[2] = 0 THEN NaN ELSE <<1, 0>>)
    ELSE Difference(x[1], x[2], y[1], y[2], Gcd(x[2], y[2]))
FMul(x, y) ==
    Product(x[1], x[2], y[1], y[2], Gcd1(x[1], y[2]), Gcd1(y[1], x[2]))
FDiv(x, y) ==
    Product(x[1], x[2], y[2], y[1], Gcd1(x[1], y[1]), Gcd1(y[2], x[2]))
\* `as usize`: truncates, NaN becomes 0, +inf saturates (here: to cap)
AsUsize(x, cap) ==
    IF IsNaN(x) THEN 0
    ELSE IF x[2] = 0 THEN cap
    ELSE x[1] \div x[2]

Min2(a, b) == IF a < b THEN a ELSE b

\* Duration::as_secs_f32
as_secs_f32(ticks) == Norm(ticks, TicksPerSec)
\* Duration::as_millis
as_millis(ticks) == ticks \div TicksPerMilli
\* Duration::saturating_sub
saturating_sub(a, b) == IF b > a THEN 0 ELSE a - b
\* Duration::from_secs_f32 accepts only a finite non-negative value
from_secs_ok(x) == x[2] # 0
\* Duration::from_secs_f32, rounding to the nearest tick
from_secs_f32(x) == (2 * x[1] * TicksPerSec + x[2]) \div (2 * x[2])


\* ------------------------------------------------------------------- state
VARIABLES
    buffers,               \* BufferManager.buffers: queue of AudioBuffer
    ffts,                  \* BufferManager.ffts: exponent -> FftCache
    panic,                 \* "none", or the operation that panicked
    nextId,                \* arrival index of the next accepted sample
    fills,                 \* fill_buffer calls made
    calls,                 \* fft_interval calls made
    lastOp,                \* the last call and its arguments
    out,                   \* BufferSlice returned by the last take_next
    drained,               \* chunks the last take_next removed
    result,                \* value returned by the last fft_interval
    returned,              \* all samples take_next has returned, in order
    recorded_intensites,   \* SlidingWindow.recorded_intensites
    min,                   \* SlidingWindow.min  (tenths)
    max,                   \* SlidingWindow.max  (tenths)
    updates,               \* SlidingWindow.updates
    limit,                 \* SlidingWindow.limit
    submits,               \* submit_new calls made
    ret,                   \* pair returned by the last submit_new
    inputs,                \* every value handed to submit_new, in call order
    stream,                \* StreamData.configuration: channels and rate
    lock,                  \* holder of the RwLock write guard, or "free"
    ppc,                   \* where the process callback stands
    chan,                  \* channel_index of the process callback
    pushed,                \* channel indices this callback has pushed
    cpc,                   \* where update_lights stands
    panel_index,           \* panel_index of update_lights (from 1)
    used,                  \* the (min, max) each panel got in this tick
    own,                   \* per panel: a normaliser fed that panel only
    timing                 \* elapsed time and sleep of the last tick

bufVars == <<buffers, ffts, nextId, fills, calls, lastOp, out, drained,
             result, returned>>
winVars == <<recorded_intensites, min, max, updates, limit, submits, ret,
             inputs>>
lightVars == <<stream, lock, ppc, chan, pushed, cpc, panel_index, used, own,
               timing>>
vars == <<buffers, ffts, panic, nextId, fills, calls, lastOp, out, drained,
          result, returned, recorded_intensites, min, max, updates, limit,
          submits, ret, inputs, stream, lock, ppc, chan, pushed, cpc,
          panel_index, used, own, timing>>

NoOp == [op |-> "none", arg |-> 0, preLen |-> 0]
NoResult == [kind |-> "None", len |-> 0, size |-> 0, min_index |-> 0,
             max_index |-> 0]

\* ------------------------------------------------------- AudioBuffer::read
AudioBuffer(data, rate) == [data |-> data, position |-> 0, rate |-> rate]

\* variant: the read cursor is not advanced
NextPosition_Stuck(position, values_to_read) == position

\* position after reading values_to_read samples
NextPosition(position, values_to_read) == position + values_to_read

\* the tail of read, once values_to_read and values_to_read / rate are known
ReadSlice(buffer, values_to_read, secs) ==
    IF ~from_secs_ok(secs)
    THEN [panicked |-> TRUE, buffer |-> buffer, slice |-> <<>>, elapsed |-> 0]
    ELSE [panicked |-> FALSE,
          buffer |-> [buffer EXCEPT !.position =
                          NextPosition(buffer.position, values_to_read)],
          slice |-> SubSeq(buffer.data, buffer.position + 1,
                           buffer.position + values_to_read),
          elapsed |-> from_secs_f32(secs)]

ReadCount(buffer, values_to_read) ==
    ReadSlice(buffer, values_to_read,
              FDiv(FromInt(values_to_read), FromInt(buffer.rate)))

\* max_read_count is Len(data) - position, desired_read_count the floor of
\* duration * rate
read(buffer, duration) ==
    ReadCount(buffer,
        Min2(Len(buffer.data) - buffer.position,
             AsUsize(FMul(as_secs_f32(duration), FromInt(buffer.rate)),
                     Len(buffer.data))))

\* -------------------------------------------------- BufferManager::take_next
\* variant: the loop stops after the first chunk whatever is left to cover
IntervalCovered_Always(remaining_interval) == remaining_interval >= 0

\* the loop's exit test on the interval still to cover
IntervalCovered(remaining_interval) == as_millis(remaining_interval) < 1

RECURSIVE TakeLoop(_, _, _)

\* the loop body after the bookkeeping: break, or count the chunk and go on
TakeNextChunk(st, i, interval) ==
    IF IntervalCovered(st.remaining_interval) THEN st
    ELSE TakeLoop([st EXCEPT !.buffers_taken = @ + 1], i + 1, interval)

\* the loop body once buffer i has been read with outcome r
TakeRead(st, i, interval, r) ==
    IF r.panicked THEN [st EXCEPT !.panicked = TRUE]
    ELSE TakeNextChunk(
            [st EXCEPT
                !.buffers = [st.buffers EXCEPT ![i] = r.buffer],
                !.values = st.values \o r.slice,
                !.rate = FAdd(st.rate,
                            FDiv(FMul(FromInt(st.buffers[i].rate),
                                      as_secs_f32(r.elapsed)),
                                 as_secs_f32(interval))),
                !.remaining_interval =
                    saturating_sub(st.remaining_interval, r.elapsed)],
            i, interval)

TakeLoop(st, i, interval) ==
    IF i > Len(st.buffers) THEN st
    ELSE TakeRead(st, i, interval, read(st.buffers[i], st.remaining_interval))

\* variant: the chunks read past are not removed
drain_None(bufs, buffers_taken) == bufs

\* self.buffers.drain(0..buffers_taken): the chunks kept
drain(bufs, buffers_taken) == SubSeq(bufs, buffers_taken + 1, Len(bufs))

\* variant: the accumulated rate is returned without the rescaling
TakeResult_NoRescale(st, interval) ==
    [panicked |-> st.panicked,
     buffers |-> IF st.panicked THEN st.buffers
                 ELSE drain(st.buffers, st.buffers_taken),
     drained |-> IF st.panicked THEN <<>>
                 ELSE SubSeq(st.buffers, 1, st.buffers_taken),
     values |-> st.values,
     rate |-> IF st.panicked THEN Zero ELSE st.rate]

\* the end of take_next, after the loop left the state st: total_elapsed is
\* interval - remaining_interval, and rate is divided by total_elapsed/interval
TakeResult(st, interval) ==
    [panicked |-> st.panicked,
     buffers |-> IF st.panicked THEN st.buffers
                 ELSE drain(st.buffers, st.buffers_taken),
     drained |-> IF st.panicked THEN <<>>
                 ELSE SubSeq(st.buffers, 1, st.buffers_taken),
     values |-> st.values,
     rate |-> IF st.panicked THEN Zero
              ELSE FDiv(st.rate,
                        FDiv(FSub(as_secs_f32(interval),
                                  as_secs_f32(st.remaining_interval)),
                             as_secs_f32(interval)))]

take_next(bufs, interval) ==
    TakeResult(TakeLoop([buffers |-> bufs, values |-> <<>>,
                         buffers_taken |-> 0, rate |-> Zero,
                         remaining_interval |-> interval,
                         panicked |-> FALSE], 1, interval),
               interval)

\* ------------------------------------------------ BufferManager::fill_buffer
\* variant: the backlog test lets one chunk too many in
QueueFull_Late(len) == len > BUFFER_TARGET

\* the backlog test of fill_buffer
QueueFull(len) == len >= BUFFER_TARGET

\* the chunk fill_buffer stores for a slice of n samples
NewChunk(n, rate) == AudioBuffer([k \in 1..n |-> nextId + k - 1], rate)

\* variant: a full queue drops its oldest chunk to make room
filled_DropOldest(bufs, chunk) ==
    IF QueueFull(Len(bufs)) THEN Append(Tail(bufs), chunk)
    ELSE Append(bufs, chunk)

\* variant: an empty slice is not enqueued
filled_SkipEmpty(bufs, chunk) ==
    IF QueueFull(Len(bufs)) \/ chunk.data = <<>> THEN bufs
    ELSE Append(bufs, chunk)

\* the queue after fill_buffer was handed the chunk
filled(bufs, chunk) ==
    IF QueueFull(Len(bufs)) THEN bufs ELSE Append(bufs, chunk)

\* what fill_buffer does to the BufferManager
push_back(n, rate) ==
    /\ panic = "none"
    /\ lastOp' = [op |-> "fill_buffer", arg |-> n, preLen |-> Len(buffers)]
    /\ buffers' = filled(buffers, NewChunk(n, rate))
    /\ UNCHANGED <<ffts, panic, out, drained, result>>

\* fill_buffer, counted, the accepted samples numbered
fill_buffer(n, rate) ==
    /\ fills < MaxFills
    /\ fills' = fills + 1
    /\ nextId' = IF QueueFull(Len(buffers)) THEN nextId ELSE nextId + n
    /\ push_back(n, rate)
    /\ UNCHANGED <<calls, returned>>

\* ------------------------------------------------ BufferManager::fft_interval
\* f32::log2(n).floor() for n >= 1
RECURSIVE Log2Floor(_)
Log2Floor(n) == IF n < 2 THEN 0 ELSE 1 + Log2Floor(n \div 2)

RECURSIVE Pow2(_)
Pow2(k) == IF k = 0 THEN 1 ELSE 2 * Pow2(k - 1)

\* the FftCache built for a transform of the given size; scaling_factor is
\* sqrt(size) and is kept as its square
FftCache(size) == [window_len |-> size, scaling_sq |-> size]

\* variant: the cache keeps the plan of the latest size only
or_insert_Single(cache, key, size) == key :> FftCache(size)

\* ffts.entry(key).or_insert_with(..)
or_insert(cache, key, size) ==
    IF key \in DOMAIN cache THEN cache ELSE cache @@ (key :> FftCache(size))

min_index(size, rate) ==
    AsUsize(FMul(FromInt(size), FDiv(FromInt(FLOOR_FREQ), rate)), 2 * size + 2)

\* variant: the upper bin index is not clamped to the transform size
max_index_Unclamped(size, rate) ==
    AsUsize(FMul(FromInt(size), FDiv(FromInt(CEILING_FREQ), rate)),
            2 * size + 2)

max_index(size, rate) ==
    Min2(size,
         AsUsize(FMul(FromInt(size), FDiv(FromInt(CEILING_FREQ), rate)),
                 2 * size + 2))

\* variant: the length of the range is taken as a distance
RangeLen_Abs(lo, hi) == IF lo >= hi THEN lo - hi ELSE hi - lo

\* (min_index..max_index).len()
RangeLen(lo, hi) == IF lo >= hi THEN 0 ELSE hi - lo

\* the test that refuses a bin range too small to interpolate
TooFewBins(count) == count < 2

\* the test that refuses a slice too small to transform
TooFewSamples(len) == len < 2

\* variant: the last sampled point is not collected
SampleOutcomes_Short(out_size) ==
    IF out_size = 0
    THEN {[kind |-> "Some", len |-> 0], [kind |-> "Panic", len |-> 0]}
    ELSE {[kind |-> "Some", len |-> out_size - 1]}

\* what Curve::take(out_size) followed by collect may do: sampling zero
\* points either yields nothing or panics in the stepper, depending on the
\* build; any other count yields that many values
SampleOutcomes(out_size) ==
    IF out_size = 0
    THEN {[kind |-> "Some", len |-> 0], [kind |-> "Panic", len |-> 0]}
    ELSE {[kind |-> "Some", len |-> out_size]}

\* the outcomes of fft_interval once the bin range lo..hi of a transform of
\* the given size over len samples is known
SpectrumOfRange(len, size, lo, hi, out_size) ==
    IF size > len
    THEN {[kind |-> "Panic", len |-> 0, size |-> size,
           min_index |-> lo, max_index |-> hi]}
    ELSE IF TooFewBins(RangeLen(lo, hi))
    THEN {[kind |-> "None", len |-> 0, size |-> size,
           min_index |-> lo, max_index |-> hi]}
    ELSE IF hi > size
    THEN {[kind |-> "Panic", len |-> 0, size |-> size,
           min_index |-> lo, max_index |-> hi]}
    ELSE {[kind |-> o.kind, len |-> o.len, size |-> size,
           min_index |-> lo, max_index |-> hi] :
              o \in SampleOutcomes(out_size)}

SpectrumOfSize(len, size, rate, out_size) ==
    SpectrumOfRange(len, size, min_index(size, rate), max_index(size, rate),
                    out_size)

\* the outcomes of the part of fft_interval that follows take_next
Spectrum(values, rate, out_size) ==
    IF TooFewSamples(Len(values)) THEN {NoResult}
    ELSE SpectrumOfSize(Len(values), Pow2(Log2Floor(Len(values))), rate,
                        out_size)

\* what fft_interval does to the BufferManager, and what it returns
spectrum(interval, out_size) ==
    /\ panic = "none"
    /\ lastOp' = [op |-> "fft_interval", arg |-> out_size,
                  preLen |-> Len(buffers)]
    /\ \E t \in {take_next(buffers, interval)} :
         /\ buffers' = t.buffers
         /\ drained' = t.drained
         /\ out' = [values |-> t.values, rate |-> t.rate]
         /\ IF t.panicked
            THEN /\ panic' = "take_next"
                 /\ result' = NoResult
                 /\ ffts' = ffts
            ELSE \E res \in Spectrum(t.values, t.rate, out_size) :
                 /\ result' = res
                 /\ panic' = IF res.kind = "Panic" THEN "fft_interval"
                             ELSE "none"
                 /\ ffts' = IF TooFewSamples(Len(t.values)) THEN ffts
                            ELSE or_insert(ffts, Log2Floor(Len(t.values)),
                                           res.size)

\* fft_interval, counted, the returned samples recorded
fft_interval(interval, out_size) ==
    /\ calls < MaxCalls
    /\ calls' = calls + 1
    /\ spectrum(interval, out_size)
    /\ returned' = returned \o out'.values
    /\ UNCHANGED <<nextId, fills>>

\* --------------------------------------------------------- SlidingWindow
NOISE_FLOOR == 1
INITIAL_MIN == 1000
INITIAL_MAX == 0

RECURSIVE SeqMax(_)
SeqMax(s) == IF Len(s) = 1 THEN s[1]
             ELSE LET m == SeqMax(Tail(s)) IN IF s[1] > m THEN s[1] ELSE m
RECURSIVE SeqMin(_)
SeqMin(s) == IF Len(s) = 1 THEN s[1]
             ELSE LET m == SeqMin(Tail(s)) IN IF s[1] < m THEN s[1] ELSE m

\* Vec::pop
pop(s) == SubSeq(s, 1, Len(s) - 1)

\* variant: the rescan starts as soon as the counter reaches the limit
RescanDue_AtLimit(n, lim) == n >= lim

\* the test that starts a rescan of the history
RescanDue(n, lim) == n > lim

\* variant: a value of exactly zero is the only one treated as silence
BelowFloor_Zero(value) == value < 0

\* the noise-floor test of submit_new
BelowFloor(value) == value < NOISE_FLOOR

\* the SlidingWindow as a value
Window(hist, mn, mx, upd, lim) ==
    [recorded_intensites |-> hist, min |-> mn, max |-> mx, updates |-> upd,
     limit |-> lim, panicked |-> FALSE]

\* recorded_intensites after push(value) and the pop that follows when the
\* length exceeds the limit
Recorded(hist, lim) == IF Len(hist) > lim THEN pop(hist) ELSE hist

\* the window after updates += 1, the push and the running max / min
Accept(w, value) ==
    [w EXCEPT
        !.updates = @ + 1,
        !.recorded_intensites = Recorded(Append(@, value), w.limit),
        !.max = IF value > @ THEN value ELSE @,
        !.min = IF value < @ THEN value ELSE @]

\* variant: the rescan stores the two extrema the wrong way round
Rescan_Swapped(w) ==
    IF w.recorded_intensites = <<>>
    THEN [w EXCEPT !.updates = 0, !.panicked = TRUE]
    ELSE [w EXCEPT !.updates = 0,
                   !.max = SeqMin(w.recorded_intensites),
                   !.min = SeqMax(w.recorded_intensites)]

\* the rescan: unwrap panics on an empty history, after the counter reset
Rescan(w) ==
    IF w.recorded_intensites = <<>>
    THEN [w EXCEPT !.updates = 0, !.panicked = TRUE]
    ELSE [w EXCEPT !.updates = 0,
                   !.max = SeqMax(w.recorded_intensites),
                   !.min = SeqMin(w.recorded_intensites)]

RescanIfDue(w) == IF RescanDue(w.updates, w.limit) THEN Rescan(w) ELSE w

\* the window submit_new leaves behind
Submitted(w, value) ==
    IF BelowFloor(value) THEN w ELSE RescanIfDue(Accept(w, value))

submit_new(value) ==
    /\ panic = "none"
    /\ submits < MaxSubmits
    /\ submits' = submits + 1
    /\ inputs' = Append(inputs, value)
    /\ \E w \in {Submitted(Window(recorded_intensites, min, max, updates,
                                  limit), value)} :
         /\ recorded_intensites' = w.recorded_intensites
         /\ min' = w.min
         /\ max' = w.max
         /\ updates' = w.updates
         /\ panic' = IF w.panicked THEN "submit_new" ELSE panic
         /\ ret' = IF w.panicked THEN ret ELSE <<w.min, w.max>>
    /\ UNCHANGED limit

\* ------------------------------------------------------------ specification
InitBuf ==
    /\ buffers = <<>>
    /\ ffts = <<>>
    /\ panic = "none"
    /\ nextId = 1
    /\ fills = 0
    /\ calls = 0
    /\ lastOp = NoOp
    /\ out = [values |-> <<>>, rate |-> Zero]
    /\ drained = <<>>
    /\ result = NoResult
    /\ returned = <<>>

\* SlidingWindow::new(lim)
new(lim) ==
    /\ updates = 0
    /\ recorded_intensites = <<>>
    /\ min = INITIAL_MIN
    /\ max = INITIAL_MAX
    /\ limit = lim
    /\ submits = 0
    /\ ret = <<INITIAL_MIN, INITIAL_MAX>>
    /\ inputs = <<>>

\* the two threads before the stream delivers and before the first tick
InitThreads(channels, rate, lim) ==
    /\ stream = [channels |-> channels, rate |-> rate]
    /\ lock = "free"
    /\ ppc = "idle"
    /\ chan = 0
    /\ pushed = <<>>
    /\ cpc = "start"
    /\ panel_index = 1
    /\ used = <<>>
    /\ own = [i \in 1..NumPanels |->
                Window(<<>>, INITIAL_MIN, INITIAL_MAX, 0, lim)]
    /\ timing = [ticks |-> 0, elapsed |-> 0, slept |-> 0]

Init == InitBuf /\ new(MaxLimit) /\ InitThreads(2, 2000, MaxLimit)

\* the operations of the core called on their own
FillBuffer ==
    /\ \E n \in ChunkLens, rate \in Rates : fill_buffer(n, rate)
    /\ UNCHANGED winVars
    /\ UNCHANGED lightVars
FftInterval ==
    /\ \E interval \in Intervals, out_size \in OutSizes :
         fft_interval(interval, out_size)
    /\ UNCHANGED winVars
    /\ UNCHANGED lightVars
SubmitNew ==
    /\ \E value \in WinValues : submit_new(value)
    /\ UNCHANGED bufVars
    /\ UNCHANGED lightVars

Next == FillBuffer \/ FftInterval

Spec == Init /\ [][Next]_vars

\* the normaliser on its own, for every capacity up to MaxLimit
InitWin ==
    /\ InitBuf
    /\ \E lim \in 0..MaxLimit : new(lim)
    /\ InitThreads(2, 2000, MaxLimit)
NextWin == SubmitNew
SpecWin == InitWin /\ [][NextWin]_vars

\* the whole core; the queue and the normaliser share no state, so a run
\* exercises one of the two
NextCore ==
    \/ submits = 0 /\ Next
    \/ fills = 0 /\ calls = 0 /\ NextWin
SpecCore == InitWin /\ [][NextCore]_vars

\* ------------------------------------------------ a 48 kHz capture session
\* chunks of 1024 samples at the two common capture rates, a spectrum of 8
\* buckets asked for every 21.3 ms
SessionRates == {44100, 48000}
SessionChunkLens == {1024}
SessionIntervals == {21300}
SessionOutSizes == {8}

SessionFill ==
    /\ \E n \in SessionChunkLens, rate \in SessionRates : fill_buffer(n, rate)
    /\ UNCHANGED winVars
    /\ UNCHANGED lightVars
SessionFft ==
    /\ \E interval \in SessionIntervals, out_size \in SessionOutSizes :
         fft_interval(interval, out_size)
    /\ UNCHANGED winVars
    /\ UNCHANGED lightVars
NextSession == SessionFill \/ SessionFft
SpecSession == Init /\ [][NextSession]_vars

\* ------------------------------------------------- the core left running
\* a producer and a consumer that never stop: the pushes are not counted,
\* the samples not numbered and the calls counted modulo MaxCalls, so that
\* the state space is finite. Chunk rates are non-zero, intervals at least
\* 1 ms and out_size at least 1.
RunRates == Rates \ {0}
RunIntervals == {1000, 2500}
RunOutSizes == OutSizes \ {0}

RunFill ==
    /\ \E n \in ChunkLens, rate \in RunRates : push_back(n, rate)
    /\ UNCHANGED <<nextId, fills, calls, returned>>
    /\ UNCHANGED winVars
    /\ UNCHANGED lightVars
RunFft ==
    /\ \E interval \in RunIntervals, out_size \in RunOutSizes :
         spectrum(interval, out_size)
    /\ calls' = (calls + 1) % MaxCalls
    /\ UNCHANGED <<nextId, fills, returned>>
    /\ UNCHANGED winVars
    /\ UNCHANGED lightVars
NextRun == RunFill \/ RunFft
\* update_lights calls fft_interval in every turn of its endless loop
SpecRun == Init /\ [][NextRun]_vars /\ []<><<RunFft>>_vars

\* ------------------------------------------- update_lights and the stream
LIGHT_INTERVAL == 100 * TicksPerMilli
OUT_SIZE == 10
WINDOW_LIMIT == 64

\* channel counts and sample rates a stream may be configured with
MaxChannels == 3
StreamRates == {2000}
\* what data[panel_index] may hold, in tenths
PanelValues == {1, 7}
\* what process_start.elapsed() may read, in ticks
Elapsed == {10 * TicksPerMilli, 100 * TicksPerMilli, 130 * TicksPerMilli}

\* who holds the write guard once fft_interval has returned: the guard is a
\* temporary of the if-let scrutinee and lives to the end of the if-let, so
\* it is dropped at once only when there is no body to run
GuardAfterFft(kind) == IF kind = "None" THEN "free" ELSE "consumer"

\* thread::sleep(LIGHT_INTERVAL) when the period is not yet over
SleepFor(e) == IF LIGHT_INTERVAL >= e THEN LIGHT_INTERVAL ELSE 0

\* variant: the loop visits every channel
LoopEnd_AllChannels(channels) == channels

\* the end, not included, of the range 0..channels-1 the callback loops over
LoopEnd(channels) == channels - 1

\* process callback: a buffer was dequeued
p_dequeue ==
    /\ panic = "none"
    /\ ppc = "idle"
    /\ fills < MaxFills
    /\ ppc' = "loop"
    /\ chan' = 0
    /\ pushed' = <<>>
    /\ UNCHANGED <<panic, stream, lock, cpc, panel_index, used, own, timing>>
    /\ UNCHANGED bufVars
    /\ UNCHANGED winVars

\* process callback: buffer_manager.write() for channel_index. The stream is
\* connected with MAP_BUFFERS: the dequeued buffer is taken to hold a mapped
\* data block for every index visited, so that get_mut(..).unwrap() and
\* channel.data() give one
p_write ==
    /\ panic = "none"
    /\ ppc = "loop"
    /\ chan < LoopEnd(stream.channels)
    /\ lock = "free"
    /\ fills < MaxFills
    /\ lock' = "producer"
    /\ ppc' = "locked"
    /\ UNCHANGED <<panic, pushed, stream, chan, cpc, panel_index, used, own,
                   timing>>
    /\ UNCHANGED bufVars
    /\ UNCHANGED winVars

\* process callback: fill_buffer under the guard, which is then dropped
p_fill ==
    /\ ppc = "locked"
    /\ \E n \in ChunkLens : fill_buffer(n, stream.rate)
    /\ lock' = "free"
    /\ ppc' = "loop"
    /\ chan' = chan + 1
    /\ pushed' = Append(pushed, chan)
    /\ UNCHANGED <<stream, cpc, panel_index, used, own, timing>>
    /\ UNCHANGED winVars

\* process callback: the channel loop is over
p_return ==
    /\ panic = "none"
    /\ ppc = "loop"
    /\ chan >= LoopEnd(stream.channels)
    /\ ppc' = "idle"
    /\ UNCHANGED <<panic, pushed, stream, lock, chan, cpc, panel_index, used,
                   own, timing>>
    /\ UNCHANGED bufVars
    /\ UNCHANGED winVars

\* update_lights: process_start is taken and the colour channel is polled
c_start ==
    /\ panic = "none"
    /\ cpc = "start"
    /\ calls < MaxCalls
    /\ cpc' = "recv"
    /\ UNCHANGED <<panic, pushed, stream, lock, ppc, chan, panel_index, used,
                   own, timing>>
    /\ UNCHANGED bufVars
    /\ UNCHANGED winVars

\* update_lights: recv_timeout has returned
c_recv ==
    /\ panic = "none"
    /\ cpc = "recv"
    /\ cpc' = "write"
    /\ UNCHANGED <<panic, pushed, stream, lock, ppc, chan, panel_index, used,
                   own, timing>>
    /\ UNCHANGED bufVars
    /\ UNCHANGED winVars

\* update_lights: buffer_manager.write() and fft_interval(LIGHT_INTERVAL)
c_fft ==
    /\ cpc = "write"
    /\ lock = "free"
    /\ fft_interval(LIGHT_INTERVAL, OUT_SIZE)
    /\ lock' = GuardAfterFft(result'.kind)
    /\ cpc' = IF result'.kind = "Some" THEN "panels"
              ELSE IF result'.kind = "None" THEN "elapsed" ELSE cpc
    /\ panel_index' = 1
    /\ used' = <<>>
    /\ UNCHANGED <<pushed, stream, ppc, chan, own, timing>>
    /\ UNCHANGED winVars

\* update_lights: one turn of the loop over the panels
c_panel ==
    /\ cpc = "panels"
    /\ panel_index <= NumPanels
    /\ \E value \in PanelValues :
         /\ submit_new(value)
         /\ own' = [own EXCEPT ![panel_index] = Submitted(@, value)]
    /\ used' = Append(used, ret')
    /\ panel_index' = panel_index + 1
    /\ UNCHANGED <<pushed, stream, lock, ppc, chan, cpc, timing>>
    /\ UNCHANGED bufVars

\* update_lights: send_effect is called, the frame goes to the socket
c_send ==
    /\ panic = "none"
    /\ cpc = "panels"
    /\ panel_index > NumPanels
    /\ cpc' = "sending"
    /\ UNCHANGED <<panic, pushed, stream, lock, ppc, chan, panel_index, used,
                   own, timing>>
    /\ UNCHANGED bufVars
    /\ UNCHANGED winVars

\* update_lights: send_effect has returned and the if-let ends
c_sent ==
    /\ panic = "none"
    /\ cpc = "sending"
    /\ cpc' = "elapsed"
    /\ lock' = "free"
    /\ UNCHANGED <<panic, pushed, stream, ppc, chan, panel_index, used, own,
                   timing>>
    /\ UNCHANGED bufVars
    /\ UNCHANGED winVars

\* update_lights: the end of the tick. elapsed() is read twice, e then e2;
\* LIGHT_INTERVAL.sub(e2) panics when the period ran out between the two
c_sleep ==
    /\ panic = "none"
    /\ cpc = "elapsed"
    /\ \E e \in Elapsed, e2 \in Elapsed :
         /\ e2 >= e
         /\ IF LIGHT_INTERVAL >= e /\ e2 > LIGHT_INTERVAL
            THEN /\ panic' = "update_lights"
                 /\ UNCHANGED <<cpc, timing>>
            ELSE /\ panic' = panic
                 /\ cpc' = "start"
                 /\ timing' = [ticks |-> timing.ticks + 1, elapsed |-> e,
                               slept |-> SleepFor(e)]
    /\ UNCHANGED <<pushed, stream, lock, ppc, chan, panel_index, used, own>>
    /\ UNCHANGED <<buffers, ffts, nextId, fills, calls, lastOp, out, drained,
                   result, returned>>
    /\ UNCHANGED winVars

InitLights ==
    /\ InitBuf
    /\ new(WINDOW_LIMIT)
    /\ \E channels \in 1..MaxChannels, rate \in StreamRates :
         InitThreads(channels, rate, WINDOW_LIMIT)

Producer == p_dequeue \/ p_write \/ p_fill \/ p_return
Consumer == c_start \/ c_recv \/ c_fft \/ c_panel \/ c_send \/ c_sent \/ c_sleep
NextLights == Producer \/ Consumer
SpecLights == InitLights /\ [][NextLights]_vars

\* ==================================================================== claims
IsFill == lastOp.op = "fill_buffer"
IsFft == lastOp.op = "fft_interval"
\* steps that are one fill_buffer call / one fft_interval call
FillStep == fills' = fills + 1
FftStep == calls' = calls + 1

\* C1: whatever the interleaving of fill_buffer and fft_interval (take_next)
\* calls, the queue never holds more than BUFFER_TARGET = 3 chunks.
C1_QueueBounded == Len(buffers) <= BUFFER_TARGET

\* a push was refused at a full queue after the consumer had already run
C1_Witness ==
    /\ IsFill
    /\ lastOp.preLen = BUFFER_TARGET
    /\ Len(buffers) = BUFFER_TARGET
    /\ calls > 0

\* C2: a fill_buffer call made while the queue holds BUFFER_TARGET chunks
\* changes nothing: same chunks in the same order with the same samples, rate
\* and position; the incoming samples get no arrival index; no panic.
C2_FullPushIsNoOp ==
    [][(FillStep /\ Len(buffers) >= BUFFER_TARGET)
        => /\ buffers' = buffers
           /\ nextId' = nextId
           /\ ffts' = ffts
           /\ panic' = "none"]_vars

\* a non-empty push was refused while the front chunk was partly read
C2_Witness ==
    /\ IsFill
    /\ lastOp.preLen = BUFFER_TARGET
    /\ lastOp.arg > 0
    /\ Len(buffers) = BUFFER_TARGET
    /\ buffers[1].position > 0
    /\ buffers[1].position < Len(buffers[1].data)

\* C3 (as claimed): pushing a zero-length slice never changes the queue.
C3_EmptyPushIsNoOp ==
    [][(FillStep /\ lastOp'.arg = 0) => buffers' = buffers]_vars

\* C3 (amended): pushing a zero-length slice changes nothing when the queue
\* holds BUFFER_TARGET chunks, and otherwise appends one chunk with no
\* samples and position 0, leaving the chunks already queued as they were.
C3_EmptyPushAppendsEmptyChunk ==
    [][(FillStep /\ lastOp'.arg = 0)
        => IF Len(buffers) >= BUFFER_TARGET
           THEN buffers' = buffers
           ELSE /\ Len(buffers') = Len(buffers) + 1
                /\ SubSeq(buffers', 1, Len(buffers)) = buffers
                /\ buffers'[Len(buffers')].data = <<>>
                /\ buffers'[Len(buffers')].position = 0]_vars

\* an empty chunk was appended behind a chunk that holds samples
C3_Witness ==
    /\ IsFill
    /\ lastOp.arg = 0
    /\ lastOp.preLen < BUFFER_TARGET
    /\ Len(buffers) = lastOp.preLen + 1
    /\ Len(buffers) >= 2
    /\ buffers[Len(buffers)].data = <<>>
    /\ buffers[1].data # <<>>

\* C4: the samples take_next has returned, concatenated in call order, are in
\* arrival order and none occurs twice: the sequence of their arrival
\* indices is strictly increasing and holds accepted samples only.
C4_NoReorderNoDuplicate ==
    /\ \A i \in 1..Len(returned) : returned[i] \in 1..(nextId - 1)
    /\ \A i \in 1..(Len(returned) - 1) : returned[i] < returned[i + 1]

\* three chunks of three samples were returned by two calls: the first
\* stopped inside the second chunk, the second finished it and read the third
C4_Witness ==
    /\ calls = 2
    /\ Len(returned) = 9
    /\ Len(out.values) = 4
    /\ panic = "none"

\* C5 (as claimed): every chunk take_next removed had been read to its end.
C5_RemovedOnlyWhenRead ==
    \A i \in 1..Len(drained) :
        drained[i].position = Len(drained[i].data)

C7_EmptyQueueRateZero ==
    (IsFft /\ lastOp.preLen = 0) => (out.values = <<>> /\ out.rate = Zero)

\* C8: fft_interval returns None, without panicking, when take_next delivered
\* fewer than 2 samples and when the bin range min_index..max_index holds
\* fewer than 2 bins.
C8_InsufficientDataIsNone ==
    (IsFft /\ panic # "take_next")
        => /\ (Len(out.values) < 2)
                => (result.kind = "None" /\ panic = "none")
           /\ (Len(out.values) >= 2 /\ result.size <= Len(out.values)
                 /\ result.max_index - result.min_index < 2)
                => (result.kind = "None" /\ panic = "none")

\* at least 2 samples were transformed and min_index lies above max_index
C8_Witness ==
    /\ IsFft
    /\ Len(out.values) >= 2
    /\ result.min_index > result.max_index
    /\ result.kind = "None"
    /\ panic = "none"

\* C9 (as claimed): fft_interval with out_size = 0 returns None.
C9_ZeroOutSizeIsNone ==
    (IsFft /\ lastOp.arg = 0 /\ panic # "take_next")
        => (result.kind = "None" /\ panic = "none")

\* C10: with non-zero chunk rates, out_size >= 1 and a normaliser capacity
\* of at least 1, no call panics: the truncated size fits the samples, the
\* bin range fits the transformed block, the rescanned history is not empty
\* and every duration conversion gets a finite non-negative value.
ValidConfiguration ==
    /\ \A i \in 1..Len(buffers) : buffers[i].rate # 0
    /\ IsFft => lastOp.arg >= 1
    /\ limit >= 1
C10_NoPanic ==
    ValidConfiguration
        => /\ panic = "none"
           /\ IsFft => /\ result.size <= Len(out.values)
                       /\ result.max_index <= result.size
           /\ updates <= limit

\* a present result was computed from a block truncated to a power of two
C10_Witness ==
    /\ ValidConfiguration
    /\ IsFft
    /\ result.kind = "Some"
    /\ result.size < Len(out.values)
    /\ panic = "none"

\* ------------------------------------------------- claims on SlidingWindow
\* the values submit_new did not discard as noise, in call order
AcceptedInputs == SelectSeq(inputs, LAMBDA v : v >= NOISE_FLOOR)
\* the last n elements of s (all of s when it is shorter)
LastN(s, n) == SubSeq(s, Len(s) - Min2(n, Len(s)) + 1, Len(s))
LastInput == inputs[Len(inputs)]
SubmitStep == submits' = submits + 1
StrictlyIncreasing(s) == \A i \in 1..(Len(s) - 1) : s[i] < s[i + 1]

\* C11 (as claimed): min <= max in every state reached after at least one
\* submit_new call, whatever was submitted.
C11_MinLeMaxAfterAnySubmit == submits > 0 => min <= max

\* C11 (amended): min <= max in every state reached after at least one
\* submission that was not below the noise floor.
C11_MinLeMaxAfterAccepted == Len(AcceptedInputs) > 0 => min <= max

\* a value below the floor and then one above the initial min were submitted:
\* max follows it, min is still the initial 100.0
C11_Witness ==
    /\ Len(inputs) >= 2
    /\ inputs[1] < NOISE_FLOOR
    /\ Len(AcceptedInputs) = 1
    /\ AcceptedInputs[1] > INITIAL_MIN
    /\ min = INITIAL_MIN
    /\ max = AcceptedInputs[1]

\* C12: submit_new with a value below 0.1 returns the current (min, max) and
\* leaves history, min, max and the update counter as they were.
C12_NoiseLeavesStateUnchanged ==
    [][(SubmitStep /\ inputs'[Len(inputs')] < NOISE_FLOOR)
        => /\ recorded_intensites' = recorded_intensites
           /\ min' = min
           /\ max' = max
           /\ updates' = updates
           /\ ret' = <<min, max>>
           /\ panic' = panic]_vars

\* a value below the floor was submitted to a normaliser that holds history
C12_Witness ==
    /\ submits >= 2
    /\ LastInput < NOISE_FLOOR
    /\ recorded_intensites # <<>>
    /\ updates > 0
    /\ ret = <<min, max>>

\* C13 (as claimed): the history holds the min(n, L) most recently accepted
\* values in arrival order.
C13_HistoryIsRecentFifo ==
    panic = "none" => recorded_intensites = LastN(AcceptedInputs, limit)

C15_MaxTracksLatest ==
    (/\ panic = "none"
     /\ limit >= 1
     /\ submits > 0
     /\ AcceptedInputs = inputs
     /\ StrictlyIncreasing(inputs))
        => ret[2] = LastInput

\* C16 (as claimed): right after a rescan, min and max are the minimum and
\* maximum of the L most recently accepted values.
C16_RescanGivesRecentExtrema ==
    (/\ panic = "none"
     /\ limit >= 1
     /\ submits > 0
     /\ LastInput >= NOISE_FLOOR
     /\ updates = 0)
        => /\ min = SeqMin(LastN(AcceptedInputs, limit))
           /\ max = SeqMax(LastN(AcceptedInputs, limit))

\* C20: over fill_buffer and fft_interval calls the plan cache only grows:
\* every entry stays under its key unchanged, fill_buffer leaves the cache
\* alone, a new entry appears only under the exponent of the truncated size
\* of the fft_interval call that made it (and take_next on its own, a call
\* that returns before the transform, adds nothing), and the entry under
\* key k has a window of 2^k coefficients and the scale sqrt(2^k) (kept as
\* its square).
C20_CacheOnlyGrows ==
    [][/\ \A k \in DOMAIN ffts : k \in DOMAIN ffts' /\ ffts'[k] = ffts[k]
       /\ \A k \in DOMAIN ffts' :
            /\ ffts'[k].window_len = Pow2(k)
            /\ ffts'[k].scaling_sq = Pow2(k)
       /\ FillStep => ffts' = ffts
       /\ \A k \in DOMAIN ffts' \ DOMAIN ffts :
            /\ FftStep
            /\ Len(out'.values) >= 2
            /\ k = Log2Floor(Len(out'.values))
            /\ DOMAIN ffts' = DOMAIN ffts \cup {k}
       /\ (FftStep /\ Len(out'.values) < 2) => ffts' = ffts]_vars

\* a later call of another size added its plan next to the earlier plan
C20_Witness ==
    /\ IsFft
    /\ calls >= 2
    /\ Len(out.values) >= 2
    /\ Cardinality(DOMAIN ffts) >= 2
    /\ result.kind = "Some"

\* the process callback stands at buffer_manager.write() and cannot take it
ProducerWaits ==
    /\ ppc = "loop"
    /\ chan < LoopEnd(stream.channels)
    /\ lock # "free"

\* C17 (as claimed): whoever holds the queue lock performs no I/O: the
\* consumer holds it neither while it polls the colour channel nor while
\* send_effect writes to the socket, the producer holds it only around
\* fill_buffer, and the producer never waits for the lock during the send.
C17_NoIoUnderLock ==
    /\ lock = "consumer" => cpc \notin {"recv", "sending"}
    /\ lock = "producer" => ppc = "locked"
    /\ ~(cpc = "sending" /\ ProducerWaits)

\* C18 (as claimed): a tick calls fft_interval once, then sleeps for the
\* period less the elapsed time e when e is within the period, and not at
\* all when e is beyond it.
C18_SleepsRemainder ==
    /\ cpc = "start" => calls = timing.ticks
    /\ timing.ticks > 0 =>
         timing.slept = IF timing.elapsed <= LIGHT_INTERVAL
                        THEN LIGHT_INTERVAL - timing.elapsed
                        ELSE 0

\* C19 (as claimed): the (min, max) used for a panel in a tick is what a
\* normaliser fed the values of that panel alone returns.
C19_OwnNormalizerPerBucket ==
    \A i \in 1..Len(used) : used[i] = <<own[i].min, own[i].max>>

\* C21 (as claimed): the bin range min_index..max_index selected by
\* fft_interval holds no bin of the Hermitian-symmetric upper half: no index
\* at or above size / 2.
C21_NoUpperHalfBins ==
    (IsFft /\ result.kind = "Some")
        => \A bin \in result.min_index..(result.max_index - 1) :
              2 * bin < result.size

\* three chunks of 1024 samples at 48000 Hz are queued, nothing read yet
SessionQueued ==
    /\ fills = 3
    /\ calls = 0
    /\ Len(buffers) = 3
    /\ \A i \in 1..3 : /\ Len(buffers[i].data) = 1024
                        /\ buffers[i].rate = 48000
                        /\ buffers[i].position = 0

\* C22: the first three pushes of 1024 samples into the empty queue are all
\* accepted, and when the three were tagged 48000 Hz the call
\* fft_interval(21.3 ms, 8) that follows returns a present result of
\* exactly 8 values, computed from what take_next(21.3 ms) extracts.
C22_SessionGivesEightValues ==
    [][/\ (FillStep /\ calls = 0 /\ fills < 3)
            => /\ Len(buffers') = Len(buffers) + 1
               /\ Len(buffers'[Len(buffers')].data) = 1024
       /\ (FftStep /\ SessionQueued /\ lastOp'.arg = 8)
            => /\ out'.values = take_next(buffers, 21300).values
               /\ out'.rate = take_next(buffers, 21300).rate
               /\ panic' = "none"
               /\ result'.kind = "Some"
               /\ result'.len = 8]_vars

\* the scenario happened: 1022 samples of the first chunk gave 8 values
C22_Witness ==
    /\ IsFft
    /\ fills = 3
    /\ calls = 1
    /\ lastOp.preLen = 3
    /\ lastOp.arg = 8
    /\ \A i \in 1..Len(buffers) : buffers[i].rate = 48000
    /\ Len(buffers) = 3
    /\ buffers[1].position = 1022
    /\ Len(out.values) = 1022
    /\ result.kind = "Some"
    /\ result.len = 8
    /\ result.size = 512

\* durations of the two calls a drain is split into, in ticks
SplitIntervals == {900, 1700}

\* the outcome of take_next(d2) called right after take_next(d1)
TakeTwice(bufs, d1, d2) == take_next(take_next(bufs, d1).buffers, d2)

\* the two calls together return exactly the unread samples of the front
\* chunk
ExactlyDrains(bufs, d1, d2) ==
    /\ Len(bufs) > 0
    /\ bufs[1].position < Len(bufs[1].data)
    /\ ~take_next(bufs, d1).panicked
    /\ ~TakeTwice(bufs, d1, d2).panicked
    /\ take_next(bufs, d1).values \o TakeTwice(bufs, d1, d2).values
         = SubSeq(bufs[1].data, bufs[1].position + 1, Len(bufs[1].data))

\* C23 (as claimed): from any queue state, two take_next calls that together
\* exactly drain the front chunk leave the queue (chunks, order, positions)
\* as one take_next call for the sum of their durations does.
C23_SplitDrainSameQueue ==
    \A d1 \in SplitIntervals, d2 \in SplitIntervals :
        ExactlyDrains(buffers, d1, d2)
            => TakeTwice(buffers, d1, d2).buffers
                 = take_next(buffers, d1 + d2).buffers

\* the chunks the last take_next walked over or stopped on, as they are now
ChunksSeen == drained \o buffers
\* the rate of the chunk that sample v came from
RateOfSample(v, chunks) ==
    chunks[CHOOSE i \in 1..Len(chunks) :
              \E k \in 1..Len(chunks[i].data) : chunks[i].data[k] = v].rate
\* the time the samples stand for: each lasts 1 / rate of its chunk
RECURSIVE TimeOfSamples(_, _)
TimeOfSamples(values, chunks) ==
    IF values = <<>> THEN Zero
    ELSE FAdd(FDiv(FromInt(1), FromInt(RateOfSample(Head(values), chunks))),
              TimeOfSamples(Tail(values), chunks))
\* the mean of the chunk rates weighted by the time read from each chunk:
\* sum(rate * time) / sum(time), where rate * time is the sample count
WeightedMeanRate(values, chunks) ==
    FDiv(FromInt(Len(values)), TimeOfSamples(values, chunks))
RatesRead(values, chunks) ==
    {RateOfSample(values[j], chunks) : j \in 1..Len(values)}

\* C24: when take_next returns at least one sample, the rate it reports is
\* the mean of the rates of the chunks it read, weighted by the time read
\* from each; when all of them have the rate r it is r, whether the
\* interval was covered or the queue ran dry.
C24_RateIsWeightedMean ==
    (IsFft /\ panic # "take_next" /\ Len(out.values) >= 1)
        => /\ out.rate = WeightedMeanRate(out.values, ChunksSeen)
           /\ \A r \in Rates :
                RatesRead(out.values, ChunksSeen) = {r} => out.rate = FromInt(r)

\* one call read chunks of two rates and ran the queue dry on the way
C24_Witness ==
    /\ IsFft
    /\ panic = "none"
    /\ Cardinality(RatesRead(out.values, ChunksSeen)) = 2
    /\ out.rate \notin {FromInt(r) : r \in Rates}
    /\ buffers = <<>>

\* the call that returned t moved the read position of the front chunk of
\* bufs forward, or removed a chunk
Progress(bufs, t) ==
    /\ ~t.panicked
    /\ \/ Len(t.buffers) < Len(bufs)
       \/ t.buffers[1].position > bufs[1].position
\* a step that appends a chunk: an accepted push
PushAccepted == Len(buffers') = Len(buffers) + 1

\* C25: with non-zero chunk rates, every take_next call of at least 1 ms on
\* a non-empty queue advances the front read position or removes a chunk;
\* while the consumer keeps calling, a full queue does not stay full, the
\* queue becomes empty if from some point on no push is accepted, and if
\* the producer keeps pushing, pushes are accepted again and again.
C25_ConsumerProgress ==
    /\ [](panic = "none")
    /\ [](\A interval \in RunIntervals :
            buffers # <<>> => Progress(buffers, take_next(buffers, interval)))
    /\ (Len(buffers) = BUFFER_TARGET) ~> (Len(buffers) < BUFFER_TARGET)
    /\ <>[][~PushAccepted]_vars => <>(buffers = <<>>)
    /\ WF_vars(RunFill) => []<><<PushAccepted>>_vars

\* the full queue lost a chunk to a call of the consumer
C25_Witness ==
    /\ IsFft
    /\ lastOp.preLen = BUFFER_TARGET
    /\ Len(buffers) < BUFFER_TARGET
    /\ panic = "none"

\* steps of the process callback: the fill_buffer call, and the return
PushStep == ppc = "locked" /\ ppc' = "loop"
ReturnStep == ppc = "loop" /\ ppc' = "idle"

====
